---- MODULE Spec2Model ----
(***************************************************************************)
(* A model of asn1_function_sheet.py: age_splitter, effectSizer,           *)
(* cohenEffectSize, cohortCompare and the CohortMetric class.              *)
(*                                                                         *)
(* A pandas DataFrame is a record                                          *)
(*     [index, columns, dtype, data]                                       *)
(* index: the row labels, in row order; columns: the column names, in      *)
(* column order; dtype: column name -> "int64" | "float64" | "object";     *)
(* data: column name -> the sequence of the column's cells.                *)
(* A cell is NaN (the missing marker), Num(n) or Str(s).  The numbers are  *)
(* small integers, on which float64 arithmetic is exact; a statistic that  *)
(* is not an integer is kept as a reduced fraction, and a standard         *)
(* deviation by its square (the variance).                                 *)
(***************************************************************************)
EXTENDS Integers, Sequences, FiniteSets, TLC

VARIABLES
    df,          \* the caller's table
    group1,      \* the caller's first sample (a Series: a sequence of cells)
    group2,      \* the caller's second sample
    m1,          \* a CohortMetric object, or NoObject before its construction
    m2,          \* a second CohortMetric object
    args,        \* the other arguments the caller passes (names, threshold, lists)
    strKeepsNA,  \* the pandas build: does Series.astype(str) keep NaN missing?
    call,        \* the last call: its name, its arguments, the inputs before it
    ret          \* what the last call returned or raised

vars == <<df, group1, group2, m1, m2, args, strKeepsNA, call, ret>>

----------------------------------------------------------------------------
(* Bounds of the model.                                                    *)

MaxRowsSplit == 3
MaxRowsEffect == 4
MaxRowsCohort == 2
MaxLen == 3

----------------------------------------------------------------------------
(* Cells.                                                                  *)

NaN == [nan |-> TRUE]
Num(n) == [n |-> n]
Str(s) == [s |-> s]

isna(c) == c = NaN
IsNum(c) == DOMAIN c = {"n"}
IsStr(c) == DOMAIN c = {"s"}

\* Elementwise ==, <, >=, <= of a Series against a scalar: NaN satisfies none.
CellEq(c, v) == ~isna(c) /\ ~isna(v) /\ c = v
CellLt(c, t) == ~isna(c) /\ c.n < t
CellGe(c, t) == ~isna(c) /\ c.n >= t
CellLe(c, t) == ~isna(c) /\ c.n <= t

\* The table and samples of the caller: a call record keeps them as they were
\* when the call was made.
Inputs == [df |-> df, group1 |-> group1, group2 |-> group2]
NoReturn == [kind |-> "none"]
NoObject == [kind |-> "none"]
NoArgs == [none |-> TRUE]
NoCall == [op |-> "none"]
NoTable == [index |-> <<>>, columns |-> <<>>, dtype |-> <<>>, data |-> <<>>]

----------------------------------------------------------------------------
(* DataFrame helpers.                                                      *)

Range(s) == {s[i] : i \in DOMAIN s}

\* The positions a boolean mask selects, in row order.
RECURSIVE MaskPositions(_, _)
MaskPositions(mask, i) ==
    IF i > Len(mask) THEN <<>>
    ELSE (IF mask[i] THEN <<i>> ELSE <<>>) \o MaskPositions(mask, i + 1)

\* s[pos]: the cells of s at the positions pos.
TakeSeq(s, pos) == [j \in 1..Len(pos) |-> s[pos[j]]]

\* df[mask]: boolean-mask indexing keeps the selected rows with their labels.
BoolIndex(t, mask) ==
    LET pos == MaskPositions(mask, 1)
    IN  [index   |-> TakeSeq(t.index, pos),
         columns |-> t.columns,
         dtype   |-> t.dtype,
         data    |-> [c \in DOMAIN t.data |-> TakeSeq(t.data[c], pos)]]

NRows(t) == Len(t.index)

----------------------------------------------------------------------------
(* Series statistics.  A statistic is NaN or an exact fraction Q(num, den),*)
(* den > 0, in lowest terms.                                               *)

RECURSIVE GCD(_, _)
GCD(x, y) == IF y = 0 THEN x ELSE GCD(y, x % y)

Abs(x) == IF x < 0 THEN -x ELSE x
Sign(x) == IF x < 0 THEN -1 ELSE IF x > 0 THEN 1 ELSE 0

\* num / den for den > 0, reduced.
Q(num, den) ==
    LET g == GCD(Abs(num), den)
    IN  [num |-> num \div g, den |-> den \div g]

QSub(x, y) == Q(x.num * y.den - y.num * x.den, x.den * y.den)
QAdd(x, y) == Q(x.num * y.den + y.num * x.den, x.den * y.den)
QHalf(x) == Q(x.num, 2 * x.den)

\* Series.dropna(): a new Series without the missing cells.
dropna(s) == SelectSeq(s, LAMBDA c : ~isna(c))

\* The numbers of a Series' non-missing cells, in order (skipna=True).
Numbers(s) == LET d == dropna(s) IN [i \in 1..Len(d) |-> d[i].n]

RECURSIVE SumSeq(_)
SumSeq(xs) == IF xs = <<>> THEN 0 ELSE Head(xs) + SumSeq(Tail(xs))

RECURSIVE SumSquares(_)
SumSquares(xs) == IF xs = <<>> THEN 0 ELSE Head(xs) * Head(xs) + SumSquares(Tail(xs))

RECURSIVE Insert(_, _)
Insert(x, sorted) ==
    IF sorted = <<>> THEN <<x>>
    ELSE IF x <= Head(sorted) THEN <<x>> \o sorted
    ELSE <<Head(sorted)>> \o Insert(x, Tail(sorted))

RECURSIVE Sorted(_)
Sorted(xs) == IF xs = <<>> THEN <<>> ELSE Insert(Head(xs), Sorted(Tail(xs)))

\* Series.mean(): NaN for no non-missing value.
SeriesMean(s) ==
    LET xs == Numbers(s)
    IN  IF Len(xs) = 0 THEN NaN ELSE Q(SumSeq(xs), Len(xs))

\* Series.median(): the middle of the sorted non-missing values, or the mean
\* of the two middle ones.
SeriesMedian(s) ==
    LET xs == Sorted(Numbers(s))
        n == Len(xs)
    IN  IF n = 0 THEN NaN
        ELSE IF n % 2 = 1 THEN Q(xs[(n + 1) \div 2], 1)
        ELSE Q(xs[n \div 2] + xs[n \div 2 + 1], 2)

\* Series.std() ** 2: the sample variance (ddof=1), NaN for fewer than two
\* non-missing values.
SeriesVar(s) ==
    LET xs == Numbers(s)
        n == Len(xs)
    IN  IF n < 2 THEN NaN
        ELSE Q(n * SumSquares(xs) - SumSeq(xs) * SumSeq(xs), n * (n - 1))

\* Series.std(), kept by its square.
SeriesStd(s) == LET v == SeriesVar(s) IN IF isna(v) THEN NaN ELSE [sqrt_of |-> v]

RECURSIVE MinSeq(_)
MinSeq(xs) ==
    IF Len(xs) = 1 THEN Head(xs)
    ELSE LET m == MinSeq(Tail(xs)) IN IF Head(xs) < m THEN Head(xs) ELSE m

RECURSIVE MaxSeq(_)
MaxSeq(xs) ==
    IF Len(xs) = 1 THEN Head(xs)
    ELSE LET m == MaxSeq(Tail(xs)) IN IF Head(xs) > m THEN Head(xs) ELSE m

\* Series.min() and Series.max(): NaN for no non-missing value.
SeriesMin(s) == LET xs == Numbers(s) IN IF Len(xs) = 0 THEN NaN ELSE Q(MinSeq(xs), 1)
SeriesMax(s) == LET xs == Numbers(s) IN IF Len(xs) = 0 THEN NaN ELSE Q(MaxSeq(xs), 1)

----------------------------------------------------------------------------
(* Cohen's d.  A float result is NaN or D(sign, sq): the number of that    *)
(* sign whose square is the fraction sq.                                   *)

D(sign, sq) == [sign |-> sign, sq |-> sq]
Zero == D(0, Q(0, 1))

\* np.sqrt((std1 ** 2 + std2 ** 2) / 2), kept by its square; NaN when either
\* standard deviation is NaN.
PooledVar(v1, v2) == IF isna(v1) \/ isna(v2) THEN NaN ELSE QHalf(QAdd(v1, v2))

\* mean_diff / pooled_std for a pooled_std that is not zero: NaN when either
\* operand is NaN.
Quotient(mean_diff, pooled_var) ==
    IF isna(mean_diff) \/ isna(pooled_var) THEN NaN
    ELSE D(Sign(mean_diff.num),
           Q(mean_diff.num * mean_diff.num * pooled_var.den,
             mean_diff.den * mean_diff.den * pooled_var.num))

MeanDiff(g1, g2) ==
    IF isna(SeriesMean(g1)) \/ isna(SeriesMean(g2)) THEN NaN
    ELSE QSub(SeriesMean(g1), SeriesMean(g2))

\* A variant of cohenEffectSize without the pooled_std == 0 branch: the
\* division 0.0 / 0.0 gives nan, x / 0.0 gives an infinity.
cohenEffectSize_nozero(g1in, g2in) ==
    LET g1 == dropna(g1in)
        g2 == dropna(g2in)
        pooled_var == PooledVar(SeriesVar(g1), SeriesVar(g2))
        mean_diff == MeanDiff(g1, g2)
    IN  IF Len(g1) = 0 \/ Len(g2) = 0 THEN NaN
        ELSE IF ~isna(pooled_var) /\ pooled_var.num = 0
             THEN (IF mean_diff.num = 0 THEN NaN ELSE [inf |-> Sign(mean_diff.num)])
        ELSE Quotient(mean_diff, pooled_var)

cohenEffectSize(g1in, g2in) ==
    LET g1 == dropna(g1in)
        g2 == dropna(g2in)
        pooled_var == PooledVar(SeriesVar(g1), SeriesVar(g2))
        mean_diff == MeanDiff(g1, g2)
    IN  IF Len(g1) = 0 \/ Len(g2) = 0 THEN NaN
        ELSE IF ~isna(pooled_var) /\ pooled_var.num = 0 THEN Zero
        ELSE Quotient(mean_diff, pooled_var)

SampleCells == {NaN, Num(1), Num(2), Num(3)}
Samples == UNION {[1..n -> SampleCells] : n \in 0..MaxLen}

InitCohen ==
    /\ df = NoTable
    /\ group1 \in Samples /\ group2 \in Samples
    /\ args = NoArgs
    /\ m1 = NoObject /\ m2 = NoObject
    /\ strKeepsNA = FALSE
    /\ call = NoCall
    /\ ret = NoReturn

CohenEffectSize ==
    /\ call' = [op |-> "cohenEffectSize", inputs |-> Inputs, args |-> args]
    /\ ret' = [kind |-> "return", value |-> cohenEffectSize(group1, group2)]
    /\ UNCHANGED <<df, group1, group2, m1, m2, args, strKeepsNA>>

NextCohen == CohenEffectSize

SpecCohen == InitCohen /\ [][NextCohen]_vars

\* The non-missing values of a sample, as a set of positions and as numbers.
Present(s) == {i \in 1..Len(s) : ~isna(s[i])}
Constant(s) == \A i, j \in Present(s) : s[i].n = s[j].n

RECURSIVE SumOver(_, _)
SumOver(s, I) ==
    IF I = {} THEN 0
    ELSE LET i == CHOOSE k \in I : TRUE IN s[i].n + SumOver(s, I \ {i})

\* C7: cohenEffectSize drops the missing values of each sample independently;
\* with a sample empty afterwards the result is the undefined sentinel (NaN,
\* which is none of the numbers, 0 included); with both non-empty and a pooled
\* standard deviation of zero (each sample has two or more values, all equal)
\* the result is exactly 0.0; with two or more values on each side, not all
\* equal, the result is the number with the sign of the difference of the
\* means of the non-missing values; and each outcome is returned, not raised.
C7_CohenOutcomes ==
    call.op = "cohenEffectSize" =>
        LET s1 == call.inputs.group1
            s2 == call.inputs.group2
            n1 == Cardinality(Present(s1))
            n2 == Cardinality(Present(s2))
        IN  /\ ret.kind = "return"
            /\ (n1 = 0 \/ n2 = 0) => (isna(ret.value) /\ ret.value # Zero)
            /\ (n1 >= 2 /\ n2 >= 2 /\ Constant(s1) /\ Constant(s2)) => ret.value = Zero
            /\ (n1 >= 2 /\ n2 >= 2 /\ ~(Constant(s1) /\ Constant(s2))) =>
                   /\ ~isna(ret.value)
                   /\ ret.value.sign =
                          Sign(SumOver(s1, Present(s1)) * n2 - SumOver(s2, Present(s2)) * n1)

\* Both outcomes of the claim occur: a sample that holds only missing values,
\* and two constant samples with different means, one with a missing value.
C7_WitnessEmpty ==
    /\ call.op = "cohenEffectSize"
    /\ Len(call.inputs.group1) > 0 /\ Present(call.inputs.group1) = {}
    /\ isna(ret.value)

C7_Witness ==
    /\ call.op = "cohenEffectSize"
    /\ Cardinality(Present(call.inputs.group1)) = 2 /\ Len(call.inputs.group1) = 3
    /\ Cardinality(Present(call.inputs.group2)) >= 2
    /\ Constant(call.inputs.group1) /\ Constant(call.inputs.group2)
    /\ ~isna(call.inputs.group1[1]) /\ ~isna(call.inputs.group2[1])
    /\ call.inputs.group1[1] # call.inputs.group2[1]
    /\ ret.value = Zero

----------------------------------------------------------------------------
(* age_splitter                                                            *)

\* A variant of age_splitter whose first mask is <= instead of <.
age_splitter_le(t, col_name, age_threshold) ==
    LET col == t.data[col_name]
        df_below == BoolIndex(t, [i \in 1..NRows(t) |-> CellLe(col[i], age_threshold)])
        df_above_equal == BoolIndex(t, [i \in 1..NRows(t) |-> CellGe(col[i], age_threshold)])
    IN  <<df_below, df_above_equal>>

age_splitter(t, col_name, age_threshold) ==
    LET col == t.data[col_name]
        df_below == BoolIndex(t, [i \in 1..NRows(t) |-> CellLt(col[i], age_threshold)])
        df_above_equal == BoolIndex(t, [i \in 1..NRows(t) |-> CellGe(col[i], age_threshold)])
    IN  <<df_below, df_above_equal>>

\* The tables age_splitter is applied to: a numeric column "age" and a
\* categorical column "g", 0..MaxRowsSplit rows.
AgeCells == {NaN, Num(1), Num(2), Num(3)}
Thresholds == {1, 2, 3}
SplitGCells == {Str("x"), Str("y")}

DtypeOfNumeric(col) == IF \E i \in DOMAIN col : isna(col[i]) THEN "float64" ELSE "int64"

\* A DataFrame of the n rows given by column, with the default RangeIndex.
SplitTable(n, age, g) ==
    [index   |-> [i \in 1..n |-> i - 1],
     columns |-> <<"age", "g">>,
     dtype   |-> [c \in {"age", "g"} |-> IF c = "age" THEN DtypeOfNumeric(age) ELSE "object"],
     data    |-> [c \in {"age", "g"} |-> IF c = "age" THEN age ELSE g]]

InitSplit ==
    /\ \E n \in 0..MaxRowsSplit :
           \E age \in [1..n -> AgeCells], g \in [1..n -> SplitGCells] :
               df = SplitTable(n, age, g)
    /\ \E age_threshold \in Thresholds :
           args = [col_name |-> "age", age_threshold |-> age_threshold]
    /\ group1 = <<>> /\ group2 = <<>>
    /\ m1 = NoObject /\ m2 = NoObject
    /\ strKeepsNA = FALSE
    /\ call = NoCall
    /\ ret = NoReturn

AgeSplitter ==
    /\ call' = [op |-> "age_splitter", inputs |-> Inputs, args |-> args]
    /\ ret' = [kind |-> "return",
               value |-> age_splitter(df, args.col_name, args.age_threshold)]
    /\ UNCHANGED <<df, group1, group2, m1, m2, args, strKeepsNA>>

NextSplit == AgeSplitter

SpecSplit == InitSplit /\ [][NextSplit]_vars

RowAt(t, j) == [c \in DOMAIN t.data |-> t.data[c][j]]
Occurrences(t, label) == Cardinality({j \in 1..NRows(t) : t.index[j] = label})
Increasing(s) == \A i, j \in 1..Len(s) : i < j => s[i] < s[j]
RowsComeFrom(out, T) ==
    \A j \in 1..NRows(out) :
        \E i \in 1..NRows(T) : T.index[i] = out.index[j] /\ RowAt(T, i) = RowAt(out, j)

\* C1: age_splitter(T, C, t) returns (below, aboveOrEqual): every row of below
\* has C < t, every row of aboveOrEqual has C >= t, no row of T is in both,
\* every row of T whose C is not missing is in exactly one of them, a row whose
\* C is missing is in neither, and each output keeps T's rows (unaltered) in
\* their original relative order.
C1_AgeSplitterPartitions ==
    call.op = "age_splitter" =>
        LET T == call.inputs.df
            C == call.args.col_name
            t == call.args.age_threshold
            below == ret.value[1]
            aboveOrEqual == ret.value[2]
        IN  /\ ret.kind = "return"
            /\ \A j \in 1..NRows(below) :
                   IsNum(below.data[C][j]) /\ below.data[C][j].n < t
            /\ \A j \in 1..NRows(aboveOrEqual) :
                   IsNum(aboveOrEqual.data[C][j]) /\ aboveOrEqual.data[C][j].n >= t
            /\ Range(below.index) \cap Range(aboveOrEqual.index) = {}
            /\ \A i \in 1..NRows(T) :
                   LET label == T.index[i]
                   IN  IF isna(T.data[C][i])
                       THEN Occurrences(below, label) = 0 /\ Occurrences(aboveOrEqual, label) = 0
                       ELSE Occurrences(below, label) + Occurrences(aboveOrEqual, label) = 1
            /\ RowsComeFrom(below, T) /\ RowsComeFrom(aboveOrEqual, T)
            /\ Increasing(below.index) /\ Increasing(aboveOrEqual.index)

\* A split with rows on both sides, a row exactly at the threshold and a row
\* whose age is missing.
C1_Witness ==
    /\ call.op = "age_splitter"
    /\ NRows(ret.value[1]) > 0
    /\ \E j \in 1..NRows(ret.value[2]) :
           ret.value[2].data["age"][j] = Num(call.args.age_threshold)
    /\ \E i \in 1..NRows(call.inputs.df) : isna(call.inputs.df.data["age"][i])

----------------------------------------------------------------------------
(* effectSizer                                                             *)

\* str.strip(): without leading and trailing blanks.
RECURSIVE LStrip(_)
LStrip(s) ==
    IF Len(s) > 0 /\ SubSeq(s, 1, 1) = " " THEN LStrip(SubSeq(s, 2, Len(s))) ELSE s

RECURSIVE RStrip(_)
RStrip(s) ==
    IF Len(s) > 0 /\ SubSeq(s, Len(s), Len(s)) = " "
    THEN RStrip(SubSeq(s, 1, Len(s) - 1)) ELSE s

strip(s) == RStrip(LStrip(s))

\* str(x) of a cell of a column of the given dtype, as an f-string or
\* astype(str) formats it: a float64 prints with its ".0", NaN prints nan.
FormatCell(c, dtype) ==
    IF isna(c) THEN "nan"
    ELSE IF IsStr(c) THEN c.s
    ELSE IF dtype = "float64" THEN ToString(c.n) \o ".0"
    ELSE ToString(c.n)

\* Series.astype(str): every cell becomes its string; a missing cell becomes
\* the string "nan", or stays missing in a pandas whose str dtype keeps NaN.
astype_str(col, dtype, keepsNA) ==
    [i \in 1..Len(col) |->
        IF isna(col[i]) /\ keepsNA THEN NaN ELSE Str(FormatCell(col[i], dtype))]

\* Series.str.strip(): a missing cell stays missing.
str_strip(col) ==
    [i \in 1..Len(col) |-> IF isna(col[i]) THEN NaN ELSE Str(strip(col[i].s))]

\* Series.unique(): the distinct cells in order of first appearance; the
\* missing cells count as one value.
RECURSIVE unique(_)
unique(col) ==
    IF col = <<>> THEN <<>>
    ELSE LET front == unique(SubSeq(col, 1, Len(col) - 1))
             last == col[Len(col)]
         IN  IF last \in Range(front) THEN front ELSE Append(front, last)

\* df[cat_col] = <col>: the assignment is made on the caller's DataFrame.
SetColumn(t, name, col) ==
    [t EXCEPT !.data[name] = col, !.dtype[name] = "object"]

\* df[df[cat_col] == value][num_col]
GroupOf(t, cat_col, value, num_col) ==
    BoolIndex(t, [i \in 1..NRows(t) |-> CellEq(t.data[cat_col][i], value)]).data[num_col]

\* The DataFrame after line 39, and what the call returns or raises.
effectSizer(t, num_col, cat_col, keepsNA) ==
    LET cleaned == SetColumn(t, cat_col,
                       str_strip(astype_str(t.data[cat_col], t.dtype[cat_col], keepsNA)))
        values == unique(dropna(cleaned.data[cat_col]))
        g1 == GroupOf(cleaned, cat_col, values[1], num_col)
        g2 == GroupOf(cleaned, cat_col, values[2], num_col)
        mean_diff == MeanDiff(g1, g2)
        pooled_var == PooledVar(SeriesVar(g1), SeriesVar(g2))
    IN  [df  |-> cleaned,
         out |-> IF Len(values) # 2
                 THEN [kind |-> "raise", error |-> "ValueError",
                       message |-> [cat_col |-> cat_col, found |-> values]]
                 ELSE IF isna(pooled_var) \/ pooled_var.num = 0
                 THEN [kind |-> "return", value |-> Zero]
                 ELSE [kind |-> "return", value |-> Quotient(mean_diff, pooled_var)]]

EffectValCells == {Num(1), Num(2)}
EffectCatCells == {NaN, Str("a"), Str(" a"), Str("b"), Str("c")}

EffectTable(n, val, g) ==
    [index   |-> [i \in 1..n |-> i - 1],
     columns |-> <<"val", "g">>,
     dtype   |-> [c \in {"val", "g"} |-> IF c = "val" THEN "int64" ELSE "object"],
     data    |-> [c \in {"val", "g"} |-> IF c = "val" THEN val ELSE g]]

InitEffect ==
    /\ \E n \in 0..MaxRowsEffect :
           \E val \in [1..n -> EffectValCells], g \in [1..n -> EffectCatCells] :
               df = EffectTable(n, val, g)
    /\ args = [num_col |-> "val", cat_col |-> "g"]
    /\ group1 = <<>> /\ group2 = <<>>
    /\ m1 = NoObject /\ m2 = NoObject
    /\ strKeepsNA \in BOOLEAN
    /\ call = NoCall
    /\ ret = NoReturn

EffectSizer ==
    LET r == effectSizer(df, args.num_col, args.cat_col, strKeepsNA)
    IN  /\ call' = [op |-> "effectSizer", inputs |-> Inputs, args |-> args]
        /\ df' = r.df
        /\ ret' = r.out
        /\ UNCHANGED <<group1, group2, m1, m2, args, strKeepsNA>>

NextEffect == EffectSizer

SpecEffect == InitEffect /\ [][NextEffect]_vars

\* The distinct non-missing values of a column, trimmed.
TrimmedValues(col) == {strip(col[i].s) : i \in {k \in 1..Len(col) : ~isna(col[k])}}

\* C4: effectSizer fails with a validation error exactly when the number of
\* distinct non-missing values of cat_col, trimmed, is not two (missing values
\* are no category), and the error then names the column and the values seen.
C4_RaisesIffNotTwoValues ==
    call.op = "effectSizer" =>
        LET distinct == TrimmedValues(call.inputs.df.data[call.args.cat_col])
        IN  /\ (ret.kind = "raise") <=> (Cardinality(distinct) # 2)
            /\ ret.kind = "raise" =>
                   /\ ret.error = "ValueError"
                   /\ ret.message.cat_col = call.args.cat_col
                   /\ distinct \subseteq {v.s : v \in Range(ret.message.found)}

\* C9: every operation leaves the table or samples passed to it unchanged, on
\* success and on error alike: after the call each cell of the caller's input
\* holds the value it held before.
C9_InputsUnchanged ==
    call.op # "none" => Inputs = call.inputs

----------------------------------------------------------------------------
(* Python dicts, in insertion order: a sequence of <<key, value>> pairs.   *)

DictKeys(d) == [i \in 1..Len(d) |-> d[i][1]]
DictHas(d, k) == \E i \in 1..Len(d) : d[i][1] = k
DictGet(d, k) == d[CHOOSE i \in 1..Len(d) : d[i][1] = k][2]

\* d[k] = v: a new key is appended, an old key keeps its place.
DictSet(d, k, v) ==
    IF DictHas(d, k)
    THEN [i \in 1..Len(d) |-> IF d[i][1] = k THEN <<k, v>> ELSE d[i]]
    ELSE Append(d, <<k, v>>)

----------------------------------------------------------------------------
(* CohortMetric.  A stored value is None, a plain number Num(n), a pandas  *)
(* Series Series(cells), or (from cohortCompare) a nested mapping.         *)

None == [none |-> TRUE]
Series(cells) == [series |-> cells]
IsSeries(v) == DOMAIN v = {"series"}

CohortMetric(cohort_name) ==
    [cohort_name |-> cohort_name,
     statistics  |-> << <<"mean", None>>, <<"median", None>>, <<"std", None>>,
                        <<"min", None>>, <<"max", None>> >>]

SetStatistic(self, stat, value) ==
    [self EXCEPT !.statistics = DictSet(self.statistics, stat, value)]

setMean(self, new_mean) == SetStatistic(self, "mean", new_mean)
setMedian(self, new_median) == SetStatistic(self, "median", new_median)
setStd(self, new_std) == SetStatistic(self, "std", new_std)
setMin(self, new_min) == SetStatistic(self, "min", new_min)
setMax(self, new_max) == SetStatistic(self, "max", new_max)

\* Series.equals(other): False for anything that is not a Series; for a
\* Series, the same cells in the same places, NaN equal to NaN.
SeriesEquals(x, y) == IsSeries(y) /\ x.series = y.series

\* The outcome of one pass of compare_to's loop, at key number i of
\* self.statistics.  The attribute .equals is looked up on the stored value
\* first (only a Series has it), then other.statistics[stat] is read.
RECURSIVE CompareFrom(_, _, _)
CompareFrom(self, other, i) ==
    IF i > Len(self.statistics) THEN [kind |-> "return", value |-> TRUE]
    ELSE LET stat == self.statistics[i][1]
             mine == self.statistics[i][2]
         IN  IF ~IsSeries(mine) THEN [kind |-> "raise", error |-> "AttributeError"]
             ELSE IF ~DictHas(other.statistics, stat) THEN [kind |-> "raise", error |-> "KeyError"]
             ELSE IF ~SeriesEquals(mine, DictGet(other.statistics, stat))
                  THEN [kind |-> "return", value |-> FALSE]
             ELSE CompareFrom(self, other, i + 1)

compare_to(self, other) == CompareFrom(self, other, 1)

\* The values the setters are called with: a plain number or a Series; the
\* mean slot is also given a second number.
StatisticValues(name) ==
    {Num(1), Series(<<Num(1), Num(2)>>)} \cup (IF name = "setMean" THEN {Num(2)} ELSE {})

InitMetric ==
    /\ df = NoTable
    /\ group1 = <<>> /\ group2 = <<>>
    /\ m1 = CohortMetric("g=x")
    /\ m2 = CohortMetric("g=y")
    /\ args = NoArgs
    /\ strKeepsNA = FALSE
    /\ call = NoCall
    /\ ret = NoReturn

Object(self) == IF self = 1 THEN m1 ELSE m2

\* A setter call on object number self, leaving it as new.
SetterCall(self, new) ==
    /\ m1' = IF self = 1 THEN new ELSE m1
    /\ m2' = IF self = 2 THEN new ELSE m2
    /\ call' = [op |-> "setter", inputs |-> Inputs, args |-> args]
    /\ ret' = [kind |-> "return", value |-> None]
    /\ UNCHANGED <<df, group1, group2, args, strKeepsNA>>

SetMean ==
    \E self \in {1, 2}, v \in StatisticValues("setMean") :
        SetterCall(self, setMean(Object(self), v))

SetMedian ==
    \E self \in {1, 2}, v \in StatisticValues("setMedian") :
        SetterCall(self, setMedian(Object(self), v))

SetStd ==
    \E self \in {1, 2}, v \in StatisticValues("setStd") :
        SetterCall(self, setStd(Object(self), v))

SetMin ==
    \E self \in {1, 2}, v \in StatisticValues("setMin") :
        SetterCall(self, setMin(Object(self), v))

SetMax ==
    \E self \in {1, 2}, v \in StatisticValues("setMax") :
        SetterCall(self, setMax(Object(self), v))

CompareTo ==
    \E self \in {1, 2} :
        /\ call' = [op |-> "compare_to", inputs |-> Inputs, args |-> args,
                    self |-> Object(self), other |-> Object(3 - self)]
        /\ ret' = compare_to(Object(self), Object(3 - self))
        /\ UNCHANGED <<df, group1, group2, m1, m2, args, strKeepsNA>>

NextMetric == SetMean \/ SetMedian \/ SetStd \/ SetMin \/ SetMax \/ CompareTo

SpecMetric == InitMetric /\ [][NextMetric]_vars

FiveSlots == {"mean", "median", "std", "min", "max"}
SlotsAllNumbers(m) == \A i \in 1..Len(m.statistics) : IsNum(m.statistics[i][2])
SlotValue(m, stat) == DictGet(m.statistics, stat)

\* C5: for two CohortMetric objects built via the five-slot path with a plain
\* number in each of the five slots, compare_to returns true when the two hold
\* identical values in all five slots and false when they differ in any slot.
C5_CompareNumericSlots ==
    (/\ call.op = "compare_to"
     /\ SlotsAllNumbers(call.self)
     /\ SlotsAllNumbers(call.other)) =>
        /\ ret.kind = "return"
        /\ ret.value = (\A stat \in FiveSlots :
                            SlotValue(call.self, stat) = SlotValue(call.other, stat))

\* C6: compare_to never ends with an error: when a compared slot's value does
\* not support equality comparison (the absent placeholder, say) it returns
\* false.
C6_CompareNeverRaises ==
    call.op = "compare_to" =>
        /\ ret.kind = "return"
        /\ (\E i \in 1..Len(call.self.statistics) : ~IsSeries(call.self.statistics[i][2]))
               => ret.value = FALSE

----------------------------------------------------------------------------
(* cohortCompare                                                           *)

IsNumericDtype(dtype) == dtype \in {"int64", "float64"}

\* df.select_dtypes(include='number').columns, and the other columns.
NumericCols(t) == SelectSeq(t.columns, LAMBDA c : IsNumericDtype(t.dtype[c]))
CategoricalCols(t) == SelectSeq(t.columns, LAMBDA c : ~IsNumericDtype(t.dtype[c]))

\* f"{cohort_col}={cohort_value}"
CohortLabel(t, cohort_col, cohort_value) ==
    cohort_col \o "=" \o FormatCell(cohort_value, t.dtype[cohort_col])

\* A variant of CohortDf that keeps every row.
CohortDf_all(t, cohort_col, cohort_value) == t

\* df[df[cohort_col] == cohort_value]
CohortDf(t, cohort_col, cohort_value) ==
    BoolIndex(t, [i \in 1..NRows(t) |-> CellEq(t.data[cohort_col][i], cohort_value)])

\* The dict built for one numeric column: one entry per requested statistic.
NumericStats(series, statistics) ==
    [stat \in {x \in {"mean", "median", "std", "min", "max"} : x \in Range(statistics)} |->
        CASE stat = "mean"   -> SeriesMean(series)
          [] stat = "median" -> SeriesMedian(series)
          [] stat = "std"    -> SeriesStd(series)
          [] stat = "min"    -> SeriesMin(series)
          [] stat = "max"    -> SeriesMax(series)]

\* Series.value_counts().to_dict(): each non-missing value to its count.
ValueCounts(series) ==
    [v \in {c.s : c \in Range(dropna(series))} |->
        Cardinality({i \in 1..Len(series) : series[i] = Str(v)})]

\* The body of the inner loop, lines 89-113: the metric of one cohort.
MetricFor(t, cohort_col, cohort_value, statistics) ==
    LET cohort_df == CohortDf(t, cohort_col, cohort_value)
        metric == CohortMetric(CohortLabel(t, cohort_col, cohort_value))
        stats_dict == [num_col \in Range(NumericCols(t)) |->
                          NumericStats(cohort_df.data[num_col], statistics)]
        counts == [cat_col \in Range(CategoricalCols(t)) |->
                      ValueCounts(cohort_df.data[cat_col])]
    IN  SetStatistic(SetStatistic(metric, "numeric_stats", stats_dict), "counts", counts)

\* A variant of StoreResult that keeps the entry a label already has.
StoreResult_keepfirst(results, label, metric) ==
    IF DictHas(results, label) THEN results ELSE Append(results, <<label, metric>>)

\* results[label] = metric
StoreResult(results, label, metric) == DictSet(results, label, metric)

\* The inner loop over df[cohort_col].unique(), from value number i.
RECURSIVE ValuesLoop(_, _, _, _, _, _)
ValuesLoop(results, t, cohort_col, values, i, statistics) ==
    IF i > Len(values) THEN results
    ELSE ValuesLoop(StoreResult(results,
                                CohortLabel(t, cohort_col, values[i]),
                                MetricFor(t, cohort_col, values[i], statistics)),
                    t, cohort_col, values, i + 1, statistics)

\* The outer loop over cohorts, from column number k.
RECURSIVE CohortsLoop(_, _, _, _, _)
CohortsLoop(results, t, cohorts, k, statistics) ==
    IF k > Len(cohorts) THEN results
    ELSE CohortsLoop(ValuesLoop(results, t, cohorts[k], unique(t.data[cohorts[k]]), 1, statistics),
                     t, cohorts, k + 1, statistics)

cohortCompare(t, cohorts, statistics) == CohortsLoop(<<>>, t, cohorts, 1, statistics)

DefaultStatistics == <<"mean", "median", "std", "min", "max">>

\* The calls made: the default statistics, a selection, and a selection with
\* a name that is no statistic; one or two grouping columns.
StatisticsChoices == {DefaultStatistics, <<"max", "mean">>, <<"min", "sum">>}
CohortsChoices == {<<"g">>, <<"val">>, <<"g", "g=h">>, <<"g=h", "g">>}

CohortValCells == {NaN, Num(1), Num(2)}
CohortGCells == {NaN, Str("x"), Str("h=x")}
CohortGHCells == {Str("x"), Str("y")}

\* A table with a numeric column "val" and the categorical columns "g" and
\* "g=h".
CohortTable(n, val, g, gh) ==
    [index   |-> [i \in 1..n |-> i - 1],
     columns |-> <<"val", "g", "g=h">>,
     dtype   |-> [c \in {"val", "g", "g=h"} |->
                     IF c = "val" THEN DtypeOfNumeric(val) ELSE "object"],
     data    |-> [c \in {"val", "g", "g=h"} |->
                     IF c = "val" THEN val ELSE IF c = "g" THEN g ELSE gh]]

InitCohort ==
    /\ \E n \in 0..MaxRowsCohort :
           \E val \in [1..n -> CohortValCells], g \in [1..n -> CohortGCells],
              gh \in [1..n -> CohortGHCells] :
               df = CohortTable(n, val, g, gh)
    /\ \E cohorts \in CohortsChoices, statistics \in StatisticsChoices :
           args = [cohorts |-> cohorts, statistics |-> statistics]
    /\ group1 = <<>> /\ group2 = <<>>
    /\ m1 = NoObject /\ m2 = NoObject
    /\ strKeepsNA = FALSE
    /\ call = NoCall
    /\ ret = NoReturn

CohortCompare ==
    /\ call' = [op |-> "cohortCompare", inputs |-> Inputs, args |-> args]
    /\ ret' = [kind |-> "return",
               value |-> cohortCompare(df, args.cohorts, args.statistics)]
    /\ UNCHANGED <<df, group1, group2, m1, m2, args, strKeepsNA>>

NextCohort == CohortCompare

SpecCohort == InitCohort /\ [][NextCohort]_vars

----------------------------------------------------------------------------
(* What a cohortCompare call is expected to return, stated over sets of    *)
(* rows.                                                                   *)

\* The sum of F over a finite set.
RECURSIVE SumSet(_, _)
SumSet(F(_), S) ==
    IF S = {} THEN 0
    ELSE LET x == CHOOSE y \in S : TRUE IN F(x) + SumSet(F, S \ {x})

\* The grouping-column/value pairs a call processes: <<k, r>> stands for the
\* k-th grouping column and the value first seen in its row r.
Processed(T, cohorts) ==
    {p \in (1..Len(cohorts)) \X (1..NRows(T)) :
        \A r \in 1..(p[2] - 1) : T.data[cohorts[p[1]]][r] # T.data[cohorts[p[1]]][p[2]]}

PairCol(cohorts, p) == cohorts[p[1]]
PairValue(T, cohorts, p) == T.data[cohorts[p[1]]][p[2]]
PairLabel(T, cohorts, p) == CohortLabel(T, PairCol(cohorts, p), PairValue(T, cohorts, p))
PairRows(T, cohorts, p) ==
    {i \in 1..NRows(T) :
        /\ ~isna(T.data[PairCol(cohorts, p)][i])
        /\ T.data[PairCol(cohorts, p)][i] = PairValue(T, cohorts, p)}

\* p is processed before q: an earlier grouping column, or the same one and a
\* value seen earlier.
Before(p, q) == p[1] < q[1] \/ (p[1] = q[1] /\ p[2] < q[2])

\* No pair processed after p formats to p's label.
LastForLabel(T, cohorts, p) ==
    \A q \in Processed(T, cohorts) :
        Before(p, q) => PairLabel(T, cohorts, q) # PairLabel(T, cohorts, p)

\* The k-th smallest (k = 1, 2, ...) of the numbers of column c in the rows P.
KthSmallest(T, c, P, k) ==
    LET X(i) == T.data[c][i].n
    IN  CHOOSE x \in {X(i) : i \in P} :
            /\ Cardinality({i \in P : X(i) < x}) < k
            /\ Cardinality({i \in P : X(i) <= x}) >= k

\* st holds the requested statistics of the numbers of column c in the rows R.
NumericStatsOfRows(st, T, c, R, statistics) ==
    LET P == {i \in R : ~isna(T.data[c][i])}
        n == Cardinality(P)
        X(i) == T.data[c][i].n
        SqDiff(pr) == (X(pr[1]) - X(pr[2])) * (X(pr[1]) - X(pr[2]))
        Requested(stat) == stat \in Range(statistics)
    IN  /\ Requested("min") =>
               st["min"] = IF n = 0 THEN NaN
                           ELSE [num |-> CHOOSE m \in {X(i) : i \in P} : \A i \in P : m <= X(i),
                                 den |-> 1]
        /\ Requested("max") =>
               st["max"] = IF n = 0 THEN NaN
                           ELSE [num |-> CHOOSE m \in {X(i) : i \in P} : \A i \in P : m >= X(i),
                                 den |-> 1]
        /\ Requested("mean") =>
               IF n = 0 THEN st["mean"] = NaN
               ELSE /\ st["mean"].den > 0
                    /\ st["mean"].num * n = SumSet(X, P) * st["mean"].den
        /\ Requested("median") =>
               IF n = 0 THEN st["median"] = NaN
               ELSE /\ st["median"].den > 0
                    /\ 2 * st["median"].num =
                          st["median"].den * (KthSmallest(T, c, P, (n + 1) \div 2)
                                              + KthSmallest(T, c, P, (n + 2) \div 2))
        /\ Requested("std") =>
               IF n < 2 THEN st["std"] = NaN
               ELSE /\ st["std"].sqrt_of.den > 0
                    /\ st["std"].sqrt_of.num * n * (n - 1) =
                          st["std"].sqrt_of.den
                              * SumSet(SqDiff, {pr \in P \X P : pr[1] < pr[2]})

\* cnt maps each value of column k seen in the rows R to the number of those
\* rows carrying it, and nothing else.
CountsOfRows(cnt, T, k, R) ==
    /\ DOMAIN cnt = {T.data[k][i].s : i \in {j \in R : ~isna(T.data[k][j])}}
    /\ \A v \in DOMAIN cnt : cnt[v] = Cardinality({i \in R : T.data[k][i] = Str(v)})

NumericColumnSet(T) == {c \in Range(T.columns) : T.dtype[c] # "object"}
CategoricalColumnSet(T) == {c \in Range(T.columns) : T.dtype[c] = "object"}

\* C2: the key set of the mapping cohortCompare returns is exactly the set of
\* labels "<column>=<value>" of the grouping columns and their distinct
\* non-missing values; a missing value in a grouping column produces no key.
C2_KeysAreNonMissingValues ==
    call.op = "cohortCompare" =>
        LET T == call.inputs.df
            keys == DictKeys(ret.value)
        IN  /\ Cardinality(Range(keys)) = Len(keys)
            /\ Range(keys) =
                   {CohortLabel(T, call.args.cohorts[p[1]], T.data[call.args.cohorts[p[1]]][p[2]]) :
                       p \in {q \in (1..Len(call.args.cohorts)) \X (1..NRows(T)) :
                                 ~isna(T.data[call.args.cohorts[q[1]]][q[2]])}}

\* C3: every entry of the mapping holds the statistics of exactly the rows
\* whose grouping column equals the value the entry was written for (the
\* last pair processed under that label): for every numeric column the
\* requested min, max, mean, median and sample standard deviation of the
\* non-missing values of those rows, and for every categorical column the
\* count of each value occurring in those rows and of no other value.
C3_EntryStatistics ==
    call.op = "cohortCompare" =>
        LET T == call.inputs.df
        IN  \A e \in Range(ret.value) :
                \E p \in Processed(T, call.args.cohorts) :
                    /\ PairLabel(T, call.args.cohorts, p) = e[1]
                    /\ LastForLabel(T, call.args.cohorts, p)
                    /\ LET R == PairRows(T, call.args.cohorts, p)
                           numeric_stats == DictGet(e[2].statistics, "numeric_stats")
                           counts == DictGet(e[2].statistics, "counts")
                       IN  /\ DOMAIN numeric_stats = NumericColumnSet(T)
                           /\ \A c \in NumericColumnSet(T) :
                                  NumericStatsOfRows(numeric_stats[c], T, c, R, call.args.statistics)
                           /\ DOMAIN counts = CategoricalColumnSet(T)
                           /\ \A k \in CategoricalColumnSet(T) :
                                  CountsOfRows(counts[k], T, k, R)

\* The cohort g=x of two rows with the numbers 1 and 2 and two different
\* values of "g=h", all five statistics requested.
C3_Witness ==
    /\ call.op = "cohortCompare"
    /\ call.args.statistics = DefaultStatistics
    /\ DictHas(ret.value, "g=x")
    /\ LET st == DictGet(DictGet(ret.value, "g=x").statistics, "numeric_stats")["val"]
           counts == DictGet(DictGet(ret.value, "g=x").statistics, "counts")
       IN  /\ st["min"] = [num |-> 1, den |-> 1]
           /\ st["max"] = [num |-> 2, den |-> 1]
           /\ st["mean"] = [num |-> 3, den |-> 2]
           /\ counts["g"] = [v \in {"x"} |-> 2]
           /\ counts["g=h"] = [v \in {"x", "y"} |-> 1]

\* C8: grouping columns are processed in list order, and when two
\* column/value pairs of different grouping columns format to the same label
\* the result holds one entry under it, the one of the later-processed pair.
C8_LaterColumnWins ==
    call.op = "cohortCompare" =>
        LET T == call.inputs.df
            cohorts == call.args.cohorts
        IN  \A p, q \in Processed(T, cohorts) :
                (/\ p[1] < q[1]
                 /\ PairLabel(T, cohorts, p) = PairLabel(T, cohorts, q)
                 /\ LastForLabel(T, cohorts, q)) =>
                    LET label == PairLabel(T, cohorts, q)
                    IN  /\ Cardinality({i \in 1..Len(ret.value) : ret.value[i][1] = label}) = 1
                        /\ DictGet(ret.value, label) =
                               MetricFor(T, PairCol(cohorts, q), PairValue(T, cohorts, q),
                                         call.args.statistics)

\* Two grouping columns collide on a label and their cohorts differ.
C8_Witness ==
    /\ call.op = "cohortCompare"
    /\ \E p, q \in Processed(call.inputs.df, call.args.cohorts) :
           /\ p[1] < q[1]
           /\ PairLabel(call.inputs.df, call.args.cohorts, p)
                  = PairLabel(call.inputs.df, call.args.cohorts, q)
           /\ MetricFor(call.inputs.df, PairCol(call.args.cohorts, p),
                        PairValue(call.inputs.df, call.args.cohorts, p), call.args.statistics)
                  # MetricFor(call.inputs.df, PairCol(call.args.cohorts, q),
                              PairValue(call.inputs.df, call.args.cohorts, q),
                              call.args.statistics)

\* C10: every CohortMetric cohortCompare produces has a statistics mapping
\* whose keys are exactly "numeric_stats" and "counts", and for every numeric
\* column the keys of numeric_stats[c] are exactly the requested names among
\* mean, median, std, min and max.
C10_StatisticsKeys ==
    call.op = "cohortCompare" =>
        \A e \in Range(ret.value) :
            /\ Range(DictKeys(e[2].statistics)) = {"numeric_stats", "counts"}
            /\ LET numeric_stats == DictGet(e[2].statistics, "numeric_stats")
               IN  \A c \in DOMAIN numeric_stats :
                       DOMAIN numeric_stats[c] = Range(call.args.statistics) \cap FiveSlots

====
